---- MODULE Spec2Model ----
(***************************************************************************)
(* PitchPerfectly: the live scorer of frontend/src/components/LiveHUD.jsx, *)
(* the pitch AudioWorklet that produces its frames, the App component that *)
(* hosts it, and the backend's results store and WebSocket relay.          *)
(*                                                                         *)
(* Units.  Frequencies are whole Hz.  RMS energy and confidence are in     *)
(* hundredths (0.5 RMS = 50, confidence 0.8 = 80).  currentTime is in      *)
(* timer ticks of 20 ms (the setInterval period).  Every score is a        *)
(* fixed-point number with SCALE units per 1.0, so the 0..100 "points" the *)
(* component stores (pitchScore * 100, totalScore, ...) run 0..100*SCALE.  *)
(* The reference pitches, beat intervals and energies used below divide    *)
(* SCALE evenly, so each \div is exact.                                    *)
(*                                                                         *)
(* Closures.  A React handler reads the state of the render that created   *)
(* it.  processor.port.onmessage is assigned once, by initializeAudio      *)
(* called from the mount effect, so the handleAudioData that runs is the   *)
(* one of the first render (MountClosure).  Spec models that.  SpecScore   *)
(* drives the same handler with the values of the latest render            *)
(* (RenderClosure), which is what its useCallback dependency list is       *)
(* written for; the claims about calculateScoringMetrics as a function are *)
(* checked there, because under Spec its scoring branch is never entered.  *)
(* SpecResults does the same for calculateFinalResults.                    *)
(*                                                                         *)
(* Requests.  An awaited fetch is a task in flight; its response is a      *)
(* separate step that runs the rest of the handler with what the handler   *)
(* closed over.  SpecAppFair and SpecSession add the progress the browser  *)
(* guarantees (responses arrive, timers fire) for the leads-to properties. *)
(***************************************************************************)
EXTENDS Integers, Sequences, FiniteSets, TLC

VARIABLES
  referenceData,   \* prop: "null" or the name of a reference track
  scoringEnabled,  \* useState(false)
  beats,           \* useState([])
  stats,           \* useState({...})
  connected,       \* useState(false)
  isRecording,     \* useState(false)
  sessionStarted,  \* useState(false)
  sessionData,     \* useState([]): the performance trace
  currentTime,     \* useState(0), in ticks
  audio,           \* initializeAudio: "pending", "ready" or "failed"
  signal,          \* what the microphone hears (input)
  produced,        \* frames the worklet has posted so far
  port,            \* frame messages posted and not yet handled
  wsState,         \* the component's WebSocket: "connecting", "open", "closed"
  starting,        \* startSession calls waiting in `await onStartSession()`
  timers,          \* running setInterval timers
  autoStops,       \* pending auto-stop timeouts, each with its closure
  completions,     \* results handed to onSessionComplete, in order
  \* the pitch worklet (PitchEnergyProcessor)
  sampleRate,      \* the AudioWorkletGlobalScope's sampleRate
  buf,             \* this.buf
  idx,             \* this.idx, the write index
  fed,             \* samples the microphone has delivered to process() so far
  \* the backend (server.js)
  rooms,           \* const rooms = new Map(): room id -> set of sockets
  results,         \* const results = new Map(): session id -> posted body
  wsRoom,          \* ws.room of each socket
  readyState,      \* each socket: "none" (not connected), "open", "closed"
  received,        \* what the server has sent to each socket, in order
  \* the App component
  currentScreen,   \* useState('upload')
  sessionId,       \* useState(null)
  playerName,      \* useState('')
  jobs,            \* poll intervals created so far (setInterval ids)
  polling,         \* poll intervals not yet cleared
  tasks,           \* requests in flight, each with what its caller closed over
  alerts           \* alert() dialogs shown so far

hudState == <<scoringEnabled, beats, stats, connected, isRecording,
              sessionStarted, sessionData, currentTime, audio, signal, produced,
              port, wsState, starting, timers, autoStops, completions>>

hudVars == <<referenceData, hudState>>

workletVars == <<sampleRate, buf, idx, fed>>

serverVars == <<rooms, results, wsRoom, readyState, received>>

appVars == <<currentScreen, sessionId, playerName, jobs, polling, tasks, alerts>>

outsideHud == <<workletVars, serverVars, appVars>>

vars == <<hudVars, workletVars, serverVars, appVars>>

----------------------------------------------------------------------------
(* Bounds of the model *)

MaxFrames == 3
MaxScored == 5
MaxQueue == 2
MaxTime == 2
MaxStarts == 2
MaxCompletions == 2
\* length of the worklet's analysis buffer (2048 in the source), scaled down
BufLen == 64
MaxInbox == 1
MaxTasks == 2
MaxJobs == 1
MaxAlerts == 1

SCALE == 44 * 100

Max2(a, b) == IF a >= b THEN a ELSE b
Min2(a, b) == IF a <= b THEN a ELSE b
Abs(x) == IF x < 0 THEN -x ELSE x
SetMin(S) == CHOOSE x \in S : \A y \in S : x <= y
SetMax(S) == CHOOSE x \in S : \A y \in S : x >= y

----------------------------------------------------------------------------
(* Inputs: reference tracks (the referenceData prop) and microphone signals *)

NoRef == "null"

\* songA: a contour that is voiced (440 Hz) at the hops the scorer reads at
\* ticks 0 and 2, unvoiced at tick 1, 220 Hz at tick 3 and too short for
\* tick 4; beats, a duration, and two adjacent phrases that meet at tick 1
\* (start and end in ticks).
\* songB: a reference with the optional fields missing (0 stands for an
\* absent number, <<>> for an absent list).
References ==
  [songA |-> [hopLength |-> 512, sampleRate |-> 22050,
              refPitchHz |-> [i \in 1..3000 |->
                                IF i <= 861 THEN 440
                                ELSE IF i <= 1722 THEN 0
                                ELSE IF i <= 2583 THEN 440 ELSE 220],
              beats |-> <<1, 3>>, duration |-> 180,
              phrases |-> << [start |-> 0, end |-> 1],
                             [start |-> 1, end |-> 2] >>],
   songB |-> [hopLength |-> 0, sampleRate |-> 0,
              refPitchHz |-> <<440>>,
              beats |-> <<>>, duration |-> 0, phrases |-> <<>>]]

RefNames == {"songA", "songB"}

\* What the worklet measures in the n-th buffer of each signal: <<f0, energy>>.
SweepFrames == << <<442, 30>>, <<494, 100>>, <<880, 20>>, <<220, 60>>, <<0, 0>> >>

Signals == {"tone", "sweep"}

FrameAt(sig, n) ==
  IF sig = "tone"
  THEN <<440, 50>>
  ELSE SweepFrames[((n - 1) % Len(SweepFrames)) + 1]

\* Sample rates of the audio context
SampleRates == {44100, 48000}

\* What the microphone delivers, sample by sample (k = 1, 2, ...), in tenths
\* of full scale: silence; a constant offset; a square wave of period 50
\* samples; and a burst that is one buffer of the square wave, one of
\* silence, then the offset.
Waveforms == {"silence", "hum", "square", "burst"}

Sample(w, k) ==
  LET square == IF ((k - 1) % 50) < 25 THEN 3 ELSE -3
  IN  CASE w = "silence" -> 0
        [] w = "hum" -> 5
        [] w = "square" -> square
        [] w = "burst" -> IF k <= BufLen THEN square
                          ELSE IF k <= 2 * BufLen THEN 0 ELSE 5

\* inputs[0][0].length of one process() call; 0 is a call without input
ChunkLens == {0, 16, 40}

\* The backend's clients: WebSocket connections, the room ids a 'join'
\* message can name, 'hud' payloads, session ids and posted result bodies
Sockets == {"ws1", "ws2", "ws3"}
Undefined == "undefined"
RoomIds == {"main", "room_1"}
Payloads == {"hudA", "hudB"}
SessionIds == {"sess1", "sess2"}
Null == "null"
PlayerNames == {"AAA"}
Bodies == {"resultsA", "resultsB"}

\* motionScore values a 'hud' payload can carry (MotionTracker: 0..100)
MotionScores == {0, 100 * SCALE}

----------------------------------------------------------------------------
(* The worklet's frame message *)

VoicedConfidence == 80
UnvoicedConfidence == 20

\* Mutant: every frame given the voiced confidence
ConfidenceFlat(f0) == VoicedConfidence

\* Mutant: the two confidences the wrong way round
ConfidenceSwapped(f0) == IF f0 > 0 THEN UnvoicedConfidence ELSE VoicedConfidence

Confidence(f0) == IF f0 > 0 THEN VoicedConfidence ELSE UnvoicedConfidence

FrameMessage(f0, energy) ==
  [type |-> "frame", f0 |-> f0, energy |-> energy, confidence |-> Confidence(f0)]

----------------------------------------------------------------------------
(* PitchEnergyProcessor: rootMeanSquare, estimatePitch, process *)

PitchFloorHz == 60
PitchCeilHz == 1000

\* Math.sqrt on a non-negative integer, rounded down
Sqrt(v) == CHOOSE r \in 0..(v + 1) : r * r <= v /\ (r + 1) * (r + 1) > v

RECURSIVE sumSquares(_, _)
sumSquares(b, i) ==
  IF i > Len(b) THEN 0 ELSE b[i] * b[i] + sumSquares(b, i + 1)

\* Math.sqrt(s / buf.length); samples in tenths, the result in hundredths
rootMeanSquare(b) == Sqrt((100 * sumSquares(b, 1)) \div Len(b))

\* for (i = 0; i < n - lag; i++) sum += buf[i] * buf[i + lag]
RECURSIVE lagSum(_, _, _)
lagSum(b, lag, i) ==
  IF i >= Len(b) - lag THEN 0
  ELSE b[i + 1] * b[i + lag + 1] + lagSum(b, lag, i + 1)

\* Mutant: the lag scan started at lag 1
minLagOne(sr) == 1

minLagOf(sr) == sr \div PitchCeilHz
maxLagOf(sr) == sr \div PitchFloorHz

\* The lag the scan ends with: `if (sum > best) { best = sum; bestLag = lag }`
\* over lag = minLag .. maxLag - 1, from best = 0 and bestLag = -1, keeps the
\* first lag whose sum is the largest, if that sum is positive.
bestLagOf(b, sr) ==
  LET lags == minLagOf(sr)..(maxLagOf(sr) - 1)
      sums == {<<lagSum(b, lag, 0), lag>> : lag \in lags}
      best == IF lags = {} THEN 0 ELSE SetMax({p[1] : p \in sums})
  IN  IF best > 0 THEN SetMin({p[2] : p \in {q \in sums : q[1] = best}})
      ELSE -1

\* sr / bestLag in whole Hz (rounded down), 0 when no lag was kept
estimatePitch(b, sr) ==
  LET bestLag == bestLagOf(b, sr)
  IN  IF bestLag > 0 THEN sr \div bestLag ELSE 0

\* Mutant: the frame posted one sample before the buffer is full
FeedEarly(st, x, sr) ==
  LET b == [st.buf EXCEPT ![st.idx + 1] = x]
  IN  IF st.idx + 1 >= Len(b) - 1
      THEN [buf |-> b, idx |-> 0,
            out |-> Append(st.out, FrameMessage(estimatePitch(b, sr),
                                                rootMeanSquare(b)))]
      ELSE [buf |-> b, idx |-> st.idx + 1, out |-> st.out]

\* One turn of the loop in process(): this.buf[this.idx++] = ch[i], and when
\* the buffer is full the frame is analysed and posted and idx returns to 0.
\* st.out collects the messages posted by the call.
Feed(st, x, sr) ==
  LET b == [st.buf EXCEPT ![st.idx + 1] = x]
  IN  IF st.idx + 1 >= Len(b)
      THEN [buf |-> b, idx |-> 0,
            out |-> Append(st.out, FrameMessage(estimatePitch(b, sr),
                                                rootMeanSquare(b)))]
      ELSE [buf |-> b, idx |-> st.idx + 1, out |-> st.out]

\* for (let i = from; i < ch.length; i++) { ... }.  Each turn's result is
\* settled before the next turn starts; a write index outside the buffer
\* would end the model's loop.
RECURSIVE feedFrom(_, _, _, _)
feedFrom(st, ch, i, sr) ==
  IF i >= Len(ch) THEN st
  ELSE LET next == Feed(st, ch[i + 1], sr)
       IN  IF next.idx \in 0..(Len(next.buf) - 1)
           THEN feedFrom(next, ch, i + 1, sr)
           ELSE next

\* process(): the loop over the samples of channel 0; a call without input
\* returns at once
process(st, ch, sr) == IF Len(ch) = 0 THEN st ELSE feedFrom(st, ch, 0, sr)

----------------------------------------------------------------------------
(* calculateScoringMetrics *)

DefaultHop == 512
DefaultRate == 22050
TickMs == 20
EnergyCap == 50
BeatToleranceTenths == 2

\* JS `v || d` on a number: 0 and undefined both give d
OrDefault(v, d) == IF v = 0 THEN d ELSE v

\* {...a, ...b}
Spread(a, b) ==
  [k \in (DOMAIN a) \cup (DOMAIN b) |-> IF k \in DOMAIN b THEN b[k] ELSE a[k]]

\* Math.floor(currentTime * 1000 * sampleRate / hopSize), currentTime in ticks
frameIndex(rd, t) ==
  (t * TickMs * OrDefault(rd.sampleRate, DefaultRate))
     \div OrDefault(rd.hopLength, DefaultHop)

\* The reference pitch the scorer reads for a frame at tick t (0 past the end)
refPitchAt(rd, t) ==
  IF frameIndex(rd, t) < Len(rd.refPitchHz)
  THEN rd.refPitchHz[frameIndex(rd, t) + 1]
  ELSE 0

\* Math.max(0, 1 - pitchError * 2), pitchError = |f0 - refPitch| / refPitch
pitchCurve(f0, refPitch) ==
  Max2(0, SCALE - (2 * SCALE * Abs(f0 - refPitch)) \div refPitch)

pitchScoreOf(rd, t, f0) ==
  IF frameIndex(rd, t) < Len(rd.refPitchHz) /\ f0 > 0
  THEN IF refPitchAt(rd, t) > 0 THEN pitchCurve(f0, refPitchAt(rd, t)) ELSE 0
  ELSE 0

\* beats.find(beat => beat > currentTime); 0 when there is none (falsy)
nextBeatOf(bs, t) ==
  LET S == {i \in 1..Len(bs) : bs[i] > t}
  IN  IF S = {} THEN 0 ELSE bs[SetMin(S)]

\* beats.filter(beat => beat <= currentTime).pop(); 0 when there is none
prevBeatOf(bs, t) ==
  LET S == {i \in 1..Len(bs) : bs[i] <= t}
  IN  IF S = {} THEN 0 ELSE bs[SetMax(S)]

\* [rhythmScore, onBeat, timingErr], scores in SCALE units
rhythmOf(bs, t) ==
  LET nextBeat == nextBeatOf(bs, t)
      prevBeat == prevBeatOf(bs, t)
      beatInterval == nextBeat - prevBeat
      timeFromPrevBeat == t - prevBeat
      \* |beatPosition - 0.5|
      offCentre == (SCALE * Abs(2 * timeFromPrevBeat - beatInterval))
                      \div (2 * beatInterval)
      timingErr == Min2(offCentre, SCALE \div 2)
  IN  IF Len(bs) > 0 /\ nextBeat # 0 /\ prevBeat # 0
      THEN IF /\ 10 * timeFromPrevBeat >= (10 - BeatToleranceTenths) * beatInterval
              /\ 10 * timeFromPrevBeat <= BeatToleranceTenths * beatInterval
           THEN [rhythmScore |-> SCALE, onBeat |-> TRUE, timingErr |-> 0]
           ELSE [rhythmScore |-> Max2(0, SCALE - 2 * timingErr),
                 onBeat |-> FALSE, timingErr |-> timingErr]
      ELSE [rhythmScore |-> 0, onBeat |-> FALSE, timingErr |-> 0]

\* Mutant: the Math.min left out
energyScoreUnclamped(energy) == (energy * SCALE) \div EnergyCap

\* Math.min(energy / 0.5, 1.0)
energyScoreOf(energy) == Min2((energy * SCALE) \div EnergyCap, SCALE)

\* (pitch*0.6 + rhythm*0.25 + energy*0.1 + motion*0.05) * 100
totalScoreOf(pitchScore, rhythmScore, energyScore, motionScore) ==
  60 * pitchScore + 25 * rhythmScore + 10 * energyScore + 5 * motionScore

\* cl: the values the calling render closed over
calculateScoringMetrics(cl, f0, energy, confidence) ==
  IF cl.referenceData = NoRef \/ ~cl.scoringEnabled
  THEN [pitch |-> f0, confidence |-> confidence, energy |-> energy]
  ELSE
    LET rd == References[cl.referenceData]
        pitchScore == pitchScoreOf(rd, cl.currentTime, f0)
        rhythm == rhythmOf(cl.beats, cl.currentTime)
        energyScore == energyScoreOf(energy)
    IN  [pitch |-> f0, confidence |-> confidence, energy |-> energy,
         pitchScore |-> pitchScore * 100,
         rhythmScore |-> rhythm.rhythmScore * 100,
         energyScore |-> energyScore * 100,
         totalScore |-> totalScoreOf(pitchScore, rhythm.rhythmScore,
                                     energyScore, cl.stats.motionScore),
         onBeat |-> rhythm.onBeat,
         timingErr |-> rhythm.timingErr * 100,
         combo |-> IF rhythm.onBeat THEN cl.stats.combo + 1 ELSE 0]

\* draw: the "COMBO x..!" popup, if (stats.combo > 5)
comboPopup(st) == st.combo > 5

----------------------------------------------------------------------------
(* Component state *)

InitStats ==
  [pitch |-> 0, confidence |-> 0, energy |-> 0, onBeat |-> FALSE, combo |-> 0,
   timingErr |-> 0, motionScore |-> 0, totalScore |-> 0, pitchScore |-> 0,
   rhythmScore |-> 0, energyScore |-> 0]

\* The worklet's constructor
WorkletInit ==
  /\ buf = [i \in 1..BufLen |-> 0]
  /\ idx = 0
  /\ fed = 0

\* server.js at start-up: both maps empty, no connection yet
ServerInit ==
  /\ rooms = <<>>
  /\ results = <<>>
  /\ wsRoom = [s \in Sockets |-> Undefined]
  /\ readyState = [s \in Sockets |-> "none"]
  /\ received = [s \in Sockets |-> <<>>]

\* App's first render
AppInit ==
  /\ currentScreen = "upload"
  /\ sessionId = Null
  /\ playerName = ""
  /\ jobs = 0
  /\ polling = {}
  /\ tasks = <<>>
  /\ alerts = 0

\* App showing the live screen, where LiveHUD is mounted, no session started
AppLive ==
  /\ currentScreen = "live"
  /\ sessionId = Null
  /\ playerName = ""
  /\ jobs = 0
  /\ polling = {}
  /\ tasks = <<>>
  /\ alerts = 0

\* Where the worklet is taken as the frame source WorkletPost, which does not
\* read the sample rate, one rate stands for all
WorkletAsSource ==
  /\ sampleRate = CHOOSE r \in SampleRates : TRUE
  /\ WorkletInit

\* LiveHUD's first render
HudMounted ==
  /\ scoringEnabled = FALSE
  /\ beats = <<>>
  /\ stats = InitStats
  /\ connected = FALSE
  /\ isRecording = FALSE
  /\ sessionStarted = FALSE
  /\ sessionData = <<>>
  /\ currentTime = 0
  /\ produced = 0
  /\ port = <<>>
  /\ wsState = "connecting"
  /\ starting = <<>>
  /\ timers = 0
  /\ autoStops = <<>>
  /\ completions = <<>>

Init ==
  /\ referenceData \in RefNames \cup {NoRef}
  /\ HudMounted
  /\ signal \in Signals
  /\ audio = "pending"
  /\ WorkletAsSource
  /\ ServerInit
  /\ AppLive

\* What the first render closed over: the handler bound to the worklet port
MountClosure ==
  [referenceData |-> referenceData, scoringEnabled |-> FALSE, currentTime |-> 0,
   beats |-> <<>>, stats |-> InitStats, connected |-> FALSE]

\* What the latest render closes over
RenderClosure ==
  [referenceData |-> referenceData, scoringEnabled |-> scoringEnabled,
   currentTime |-> currentTime, beats |-> beats, stats |-> stats,
   connected |-> connected]

RemoveAt(q, i) == [j \in 1..(Len(q) - 1) |-> IF j < i THEN q[j] ELSE q[j + 1]]

----------------------------------------------------------------------------
(* Effects and environment events *)

\* useEffect(..., [referenceData])
RefEffect ==
  /\ referenceData # NoRef
  /\ ~scoringEnabled
  /\ beats' = References[referenceData].beats
  /\ scoringEnabled' = TRUE
  /\ UNCHANGED <<outsideHud, referenceData, stats, connected, isRecording, sessionStarted,
                 sessionData, currentTime, audio, signal, produced, port,
                 wsState, starting, timers, autoStops, completions>>

\* initializeAudio runs to its end: the worklet is loaded, the handler bound
InitializeAudioOk ==
  /\ audio = "pending"
  /\ audio' = "ready"
  /\ UNCHANGED <<outsideHud, referenceData, scoringEnabled, beats, stats, connected,
                 isRecording, sessionStarted, sessionData, currentTime, signal,
                 produced, port, wsState, starting, timers, autoStops,
                 completions>>

\* getUserMedia or addModule rejects: the catch logs and returns
InitializeAudioFail ==
  /\ audio = "pending"
  /\ audio' = "failed"
  /\ UNCHANGED <<outsideHud, referenceData, scoringEnabled, beats, stats, connected,
                 isRecording, sessionStarted, sessionData, currentTime, signal,
                 produced, port, wsState, starting, timers, autoStops,
                 completions>>

\* ws.onopen
WsOpen ==
  /\ wsState = "connecting"
  /\ wsState' = "open"
  /\ connected' = TRUE
  /\ UNCHANGED <<outsideHud, referenceData, scoringEnabled, beats, stats, isRecording,
                 sessionStarted, sessionData, currentTime, audio, signal,
                 produced, port, starting, timers, autoStops,
                 completions>>

\* ws.onclose
WsClose ==
  /\ wsState \in {"connecting", "open"}
  /\ wsState' = "closed"
  /\ connected' = FALSE
  /\ UNCHANGED <<outsideHud, referenceData, scoringEnabled, beats, stats, isRecording,
                 sessionStarted, sessionData, currentTime, audio, signal,
                 produced, port, starting, timers, autoStops,
                 completions>>

\* ws.onmessage with a 'hud' message: the payload is spread over stats
OnHudMessage ==
  /\ wsState = "open"
  /\ \E m \in MotionScores : stats' = Spread(stats, [motionScore |-> m])
  /\ UNCHANGED <<outsideHud, referenceData, scoringEnabled, beats, connected, isRecording,
                 sessionStarted, sessionData, currentTime, audio, signal,
                 produced, port, wsState, starting, timers, autoStops,
                 completions>>

\* The worklet has filled another buffer and posts its frame message
WorkletPost(limit) ==
  /\ audio = "ready"
  /\ produced < limit
  /\ Len(port) < MaxQueue
  /\ produced' = produced + 1
  /\ port' = Append(port, FrameMessage(FrameAt(signal, produced + 1)[1],
                                       FrameAt(signal, produced + 1)[2]))
  /\ UNCHANGED <<outsideHud, referenceData, scoringEnabled, beats, stats, connected,
                 isRecording, sessionStarted, sessionData, currentTime, audio,
                 signal, wsState, starting, timers, autoStops,
                 completions>>

\* One process() call of the worklet on the next samples of the microphone
Process(limit) ==
  \E len \in ChunkLens :
    LET ch == [j \in 1..len |-> Sample(signal, fed + j)]
        st == process([buf |-> buf, idx |-> idx, out |-> <<>>], ch, sampleRate)
    IN  /\ audio = "ready"
        /\ produced + Len(st.out) <= limit
        /\ Len(port) + Len(st.out) <= MaxQueue
        /\ buf' = st.buf
        /\ idx' = st.idx
        /\ fed' = fed + len
        /\ port' = port \o st.out
        /\ produced' = produced + Len(st.out)
        /\ UNCHANGED <<referenceData, scoringEnabled, beats, stats, connected,
                       isRecording, sessionStarted, sessionData, currentTime,
                       audio, signal, sampleRate, wsState, starting, timers,
                       autoStops, completions, serverVars, appVars>>

----------------------------------------------------------------------------
(* handleAudioData *)

\* Mutant: the new entry put in front
PrependFrame(prev, frameData) == <<frameData>> \o prev

\* setSessionData(prev => [...prev, frameData])
AppendFrame(prev, frameData) == Append(prev, frameData)

\* The message the handler takes: the port delivers in posting order
NextMessage(q) == Head(q)

FrameData(cl, msg) ==
  Spread([time |-> cl.currentTime, f0 |-> msg.f0, energy |-> msg.energy,
          confidence |-> msg.confidence],
         calculateScoringMetrics(cl, msg.f0, msg.energy, msg.confidence))

HandleAudioData(cl) ==
  /\ port # <<>>
  /\ LET msg == NextMessage(port)
         newStats == calculateScoringMetrics(cl, msg.f0, msg.energy, msg.confidence)
     IN  /\ msg.type = "frame"
         /\ sessionData' = AppendFrame(sessionData, FrameData(cl, msg))
         /\ stats' = Spread(stats, newStats)
         /\ port' = RemoveAt(port, CHOOSE i \in 1..Len(port) : port[i] = msg)
  /\ UNCHANGED <<outsideHud, referenceData, scoringEnabled, beats, connected, isRecording,
                 sessionStarted, currentTime, audio, signal, produced, wsState,
                 starting, timers, autoStops, completions>>

----------------------------------------------------------------------------
(* Session control *)

\* sessionData.filter(frame => frame.time >= phrase.start &&
\* frame.time <= phrase.end), as the positions of the frames kept
phraseData(data, phrase) ==
  {i \in 1..Len(data) :
     data[i].time >= phrase.start /\ data[i].time <= phrase.end}

\* referenceData.phrases.forEach(...): one entry per phrase that has frames,
\* in phrase order.  `frames` stands for the entry's averages, which are
\* taken over exactly these frames.
RECURSIVE phraseResults(_, _, _)
phraseResults(data, phrases, index) ==
  IF index >= Len(phrases) THEN <<>>
  ELSE LET phrase == phrases[index + 1]
           entry == [phrase |-> index, start |-> phrase.start,
                     end |-> phrase.end, frames |-> phraseData(data, phrase)]
       IN  (IF phraseData(data, phrase) # {} THEN <<entry>> ELSE <<>>)
             \o phraseResults(data, phrases, index + 1)

\* calculateFinalResults as run by a stopSession that closed over `data`,
\* `motion` and the reference `ref`: nothing when the trace is empty, else
\* one onSessionComplete
FinalResults(data, motion, ref) ==
  IF Len(data) = 0 THEN <<>>
  ELSE << [frames |-> data, motion |-> motion,
           perPhrase |-> IF ref = NoRef THEN <<>>
                         ELSE phraseResults(data, References[ref].phrases, 0)] >>

\* onSessionComplete(results) for each of rs: App's handleSessionComplete
\* runs up to its fetch of /session/finish/<sessionId>
handleSessionComplete(ts, rs) ==
  ts \o [i \in 1..Len(rs) |-> [kind |-> "save", playerName |-> playerName]]

\* START clicked: startSession passes its guard and awaits onStartSession
ClickStart ==
  /\ ~sessionStarted
  /\ Len(starting) < MaxStarts
  /\ starting' = Append(starting, [sessionData |-> sessionData,
                                   motion |-> stats.motionScore,
                                   referenceData |-> referenceData])
  /\ UNCHANGED <<outsideHud, referenceData, scoringEnabled, beats, stats, connected,
                 isRecording, sessionStarted, sessionData, currentTime, audio,
                 signal, produced, port, wsState, timers, autoStops,
                 completions>>

\* onStartSession resolved: the rest of startSession runs.  (What App does
\* with the response, setSessionId, is StartResponds; LiveHUD never reads it.)
StartCommit ==
  \E i \in 1..Len(starting) :
    /\ starting' = RemoveAt(starting, i)
    /\ sessionStarted' = TRUE
    /\ isRecording' = TRUE
    /\ currentTime' = 0
    /\ sessionData' = <<>>
    /\ timers' = timers + 1
    /\ autoStops' =
         IF /\ starting[i].referenceData # NoRef
            /\ References[starting[i].referenceData].duration # 0
         THEN Append(autoStops, starting[i])
         ELSE autoStops
    /\ UNCHANGED <<outsideHud, referenceData, scoringEnabled, beats, stats, connected,
                   audio, signal, produced, port, wsState, completions>>

\* onStartSession rejected: startSession throws at the await
StartFail ==
  \E i \in 1..Len(starting) :
    /\ starting' = RemoveAt(starting, i)
    /\ UNCHANGED <<outsideHud, referenceData, scoringEnabled, beats, stats, connected,
                   isRecording, sessionStarted, sessionData, currentTime, audio,
                   signal, produced, port, wsState, timers, autoStops,
                   completions>>

\* setInterval callback: setCurrentTime(prev => prev + 0.02)
TimerTick ==
  /\ timers > 0
  /\ currentTime < MaxTime
  /\ currentTime' = currentTime + 1
  /\ UNCHANGED <<outsideHud, referenceData, scoringEnabled, beats, stats, connected,
                 isRecording, sessionStarted, sessionData, audio, signal,
                 produced, port, wsState, starting, timers, autoStops,
                 completions>>

\* STOP clicked: stopSession of the latest render
ClickStop ==
  /\ sessionStarted
  /\ Len(completions) < MaxCompletions
  /\ isRecording' = FALSE
  /\ LET rs == FinalResults(sessionData, stats.motionScore, referenceData)
     IN  /\ completions' = completions \o rs
         /\ tasks' = handleSessionComplete(tasks, rs)
  /\ UNCHANGED <<workletVars, serverVars, currentScreen, sessionId, playerName,
                 jobs, polling, alerts,
                 referenceData, scoringEnabled, beats, stats, connected,
                 sessionStarted, sessionData, currentTime, audio, signal,
                 produced, port, wsState, starting, timers, autoStops>>

\* The auto-stop timeout fires: stopSession of the render START was clicked
\* in, then clearInterval(timer)
AutoStop ==
  \E i \in 1..Len(autoStops) :
    /\ Len(completions) < MaxCompletions
    /\ autoStops' = RemoveAt(autoStops, i)
    /\ isRecording' = FALSE
    /\ LET rs == FinalResults(autoStops[i].sessionData, autoStops[i].motion,
                              autoStops[i].referenceData)
       IN  /\ completions' = completions \o rs
           /\ tasks' = handleSessionComplete(tasks, rs)
    /\ timers' = timers - 1
    /\ UNCHANGED <<workletVars, serverVars, currentScreen, sessionId, playerName,
                   jobs, polling, alerts,
                   referenceData, scoringEnabled, beats, stats, connected,
                   sessionStarted, sessionData, currentTime, audio, signal,
                   produced, port, wsState, starting>>

----------------------------------------------------------------------------
(* The backend: results store and WebSocket relay *)

\* Map.set
MapSet(m, k, v) ==
  [x \in (DOMAIN m) \cup {k} |-> IF x = k THEN v ELSE m[x]]

\* app.post('/finish/:session_id'): results.set(session_id, body)
Finish ==
  \E id \in SessionIds, body \in Bodies :
    /\ results' = MapSet(results, id, body)
    /\ UNCHANGED <<hudVars, workletVars, appVars, rooms, wsRoom, readyState, received>>

\* app.get('/results/:session_id'): results.get(id) || { error: 'not found' }
GetResults(id) == IF id \in DOMAIN results THEN results[id] ELSE "not found"

\* wss.on('connection')
Connect ==
  \E ws \in Sockets :
    /\ readyState[ws] = "none"
    /\ readyState' = [readyState EXCEPT ![ws] = "open"]
    /\ UNCHANGED <<hudVars, workletVars, appVars, rooms, results, wsRoom, received>>

\* ws.on('message') with a 'join' message
Join ==
  \E ws \in Sockets, roomId \in RoomIds :
    /\ readyState[ws] = "open"
    /\ wsRoom' = [wsRoom EXCEPT ![ws] = roomId]
    /\ rooms' = MapSet(rooms, roomId,
                       (IF roomId \in DOMAIN rooms THEN rooms[roomId] ELSE {})
                         \cup {ws})
    /\ UNCHANGED <<hudVars, workletVars, appVars, results, readyState, received>>

\* rooms.get(ws.room) || []
Peers(ws) == IF wsRoom[ws] \in DOMAIN rooms THEN rooms[wsRoom[ws]] ELSE {}

\* Mutant: the sender not left out
RelayToAll(ws) == {p \in Peers(ws) : readyState[p] = "open"}

\* for (const p of peers) if (p !== ws && p.readyState === 1) p.send(...)
RelayTo(ws) == {p \in Peers(ws) : p # ws /\ readyState[p] = "open"}

\* ws.on('message') with a 'hud' message
Hud ==
  \E ws \in Sockets, payload \in Payloads :
    /\ readyState[ws] = "open"
    /\ \A p \in RelayTo(ws) : Len(received[p]) < MaxInbox
    /\ received' = [p \in Sockets |->
                      IF p \in RelayTo(ws)
                      THEN Append(received[p], [type |-> "hud", payload |-> payload])
                      ELSE received[p]]
    /\ UNCHANGED <<hudVars, workletVars, appVars, rooms, results, wsRoom, readyState>>

\* ws.on('close'): if (ws.room && rooms.has(ws.room)) rooms.get(ws.room).delete(ws)
Close ==
  \E ws \in Sockets :
    /\ readyState[ws] = "open"
    /\ readyState' = [readyState EXCEPT ![ws] = "closed"]
    /\ rooms' = IF wsRoom[ws] # Undefined /\ wsRoom[ws] \in DOMAIN rooms
                THEN [rooms EXCEPT ![wsRoom[ws]] = @ \ {ws}]
                ELSE rooms
    /\ UNCHANGED <<hudVars, workletVars, appVars, results, wsRoom, received>>

----------------------------------------------------------------------------
(* App: screens, analysis, session start and completion *)

\* SongUpload has uploaded a file and calls onSongUploaded: handleSongUploaded
\* runs up to its fetch of /analyze/<trackId>
SongUploaded ==
  /\ currentScreen = "upload"
  /\ Len(tasks) < MaxTasks
  /\ tasks' = Append(tasks, [kind |-> "analyze"])
  /\ UNCHANGED <<hudVars, workletVars, serverVars, currentScreen, sessionId,
                 playerName, jobs, polling, alerts>>

\* What the /analyze request can end with: status 'ready' with a
\* reference_id, a job_id, a body with neither (server.js answers
\* { reference_id } alone), or a failure
AnalyzeOutcomes == {"ready", "job", "neither", "failed"}

\* The /analyze response arrives: status 'ready' (the reference is loaded
\* next), a job_id (polling starts), a body with neither (nothing is done),
\* or a failure (caught: alert)
AnalyzeResponds ==
  \E i \in 1..Len(tasks), outcome \in AnalyzeOutcomes :
    /\ tasks[i].kind = "analyze"
    /\ outcome = "job" => jobs < MaxJobs
    /\ outcome = "failed" => alerts < MaxAlerts
    /\ alerts' = IF outcome = "failed" THEN alerts + 1 ELSE alerts
    /\ tasks' = IF outcome = "ready"
                THEN [tasks EXCEPT ![i] = [kind |-> "load"]]
                ELSE RemoveAt(tasks, i)
    /\ jobs' = IF outcome = "job" THEN jobs + 1 ELSE jobs
    /\ polling' = IF outcome = "job" THEN polling \cup {jobs + 1} ELSE polling
    /\ UNCHANGED <<hudVars, workletVars, serverVars, currentScreen, sessionId,
                   playerName>>

\* The setInterval callback of pollAnalysisStatus: one more status request
PollTick ==
  \E job \in polling :
    /\ Len(tasks) < MaxTasks
    /\ tasks' = Append(tasks, [kind |-> "poll", job |-> job])
    /\ UNCHANGED <<hudVars, workletVars, serverVars, currentScreen, sessionId,
                   playerName, jobs, polling, alerts>>

\* A status response arrives: 'completed' (clearInterval, the reference is
\* loaded next), 'error' (clearInterval, alert), any other status, or a
\* failure (clearInterval)
PollResponds ==
  \E i \in 1..Len(tasks),
     outcome \in {"completed", "error", "processing", "failed"} :
    /\ tasks[i].kind = "poll"
    /\ outcome = "error" => alerts < MaxAlerts
    /\ alerts' = IF outcome = "error" THEN alerts + 1 ELSE alerts
    /\ polling' = IF outcome = "processing" THEN polling
                  ELSE polling \ {tasks[i].job}
    /\ tasks' = IF outcome = "completed"
                THEN [tasks EXCEPT ![i] = [kind |-> "load"]]
                ELSE RemoveAt(tasks, i)
    /\ UNCHANGED <<hudVars, workletVars, serverVars, currentScreen, sessionId,
                   playerName, jobs>>

\* loadReferenceData's fetch ends, with the reference or with a failure that
\* it catches; its caller then does setCurrentScreen('mic-check')
LoadResponds ==
  \E i \in 1..Len(tasks), data \in RefNames \cup {"failed"} :
    /\ tasks[i].kind = "load"
    /\ referenceData' = IF data = "failed" THEN referenceData ELSE data
    /\ currentScreen' = "mic-check"
    /\ tasks' = RemoveAt(tasks, i)
    /\ UNCHANGED <<hudState, workletVars, serverVars, sessionId, playerName,
                   jobs, polling, alerts>>

\* handleMicCheckComplete
MicCheckComplete ==
  /\ currentScreen = "mic-check"
  /\ currentScreen' = "live"
  /\ UNCHANGED <<hudVars, workletVars, serverVars, sessionId, playerName,
                 jobs, polling, tasks, alerts>>

\* LiveHUD calls onStartSession: the fetch of /session/start
HudStartsSession ==
  /\ currentScreen = "live"
  /\ Len(tasks) < MaxTasks
  /\ tasks' = Append(tasks, [kind |-> "start"])
  /\ UNCHANGED <<hudVars, workletVars, serverVars, currentScreen, sessionId,
                 playerName, jobs, polling, alerts>>

\* The /session/start response arrives (setSessionId) or the request fails
StartResponds ==
  \E i \in 1..Len(tasks), id \in SessionIds \cup {"failed"} :
    /\ tasks[i].kind = "start"
    /\ sessionId' = IF id = "failed" THEN sessionId ELSE id
    /\ tasks' = RemoveAt(tasks, i)
    /\ UNCHANGED <<hudVars, workletVars, serverVars, currentScreen,
                   playerName, jobs, polling, alerts>>

\* LiveHUD calls onSessionComplete with some results: handleSessionComplete
\* runs up to its fetch of /session/finish/<sessionId>
HudCompletesSession ==
  /\ currentScreen = "live"
  /\ Len(tasks) < MaxTasks
  /\ tasks' = handleSessionComplete(tasks, <<"results">>)
  /\ UNCHANGED <<hudVars, workletVars, serverVars, currentScreen, sessionId,
                 playerName, jobs, polling, alerts>>

\* How a fetch() ends: a response with a 2xx status, a response with an
\* error status (the promise is fulfilled all the same), or a rejection
FetchOutcomes == {"ok", "httpError", "rejected"}

\* try { await fetch(save); if (playerName) await fetch(submit) ... }: the
\* submission follows unless the save request threw
SubmitsAfter(outcome, name) == outcome # "rejected" /\ name # ""

\* The save request ends: if it did not throw, the leaderboard submission
\* follows if a player name was set, else the results screen is shown; if it
\* threw, the catch shows the results screen.  A submission carries the
\* name it sends and what the save before it ended with.
SaveResponds ==
  \E i \in 1..Len(tasks), outcome \in FetchOutcomes :
    /\ tasks[i].kind = "save"
    /\ IF SubmitsAfter(outcome, tasks[i].playerName)
       THEN /\ tasks' = [tasks EXCEPT ![i] = [kind |-> "submit",
                                              playerName |-> tasks[i].playerName,
                                              saved |-> outcome]]
            /\ UNCHANGED currentScreen
       ELSE /\ tasks' = RemoveAt(tasks, i)
            /\ currentScreen' = "results"
    /\ UNCHANGED <<hudVars, workletVars, serverVars, sessionId, playerName,
                   jobs, polling, alerts>>

\* The leaderboard submission ends, well or not: the results screen is shown
SubmitResponds ==
  \E i \in 1..Len(tasks) :
    /\ tasks[i].kind = "submit"
    /\ tasks' = RemoveAt(tasks, i)
    /\ currentScreen' = "results"
    /\ UNCHANGED <<hudVars, workletVars, serverVars, sessionId, playerName,
                   jobs, polling, alerts>>

\* ResultsScreen's name field: onPlayerNameChange = setPlayerName
SetPlayerName ==
  \E name \in PlayerNames \cup {""} :
    /\ currentScreen = "results"
    /\ playerName' = name
    /\ UNCHANGED <<hudVars, workletVars, serverVars, currentScreen, sessionId,
                   jobs, polling, tasks, alerts>>

\* startNewSession: the NEW SONG button (disabled on the upload screen) and
\* ResultsScreen's onNewSession
NewSong ==
  /\ currentScreen # "upload"
  /\ currentScreen' = "upload"
  /\ sessionId' = Null
  /\ referenceData' = NoRef
  /\ playerName' = ""
  /\ UNCHANGED <<hudState, workletVars, serverVars, jobs, polling, tasks, alerts>>

\* The LEADERBOARD button (disabled while sessionId is null)
LeaderboardButton ==
  /\ sessionId # Null
  /\ currentScreen' = "results"
  /\ UNCHANGED <<hudVars, workletVars, serverVars, sessionId, playerName,
                 jobs, polling, tasks, alerts>>

----------------------------------------------------------------------------
(* Specifications *)

Lifecycle ==
  \/ RefEffect
  \/ InitializeAudioOk
  \/ InitializeAudioFail
  \/ ClickStart
  \/ StartCommit
  \/ StartFail
  \/ TimerTick
  \/ ClickStop
  \/ AutoStop

Next ==
  \/ Lifecycle
  \/ WorkletPost(MaxFrames)
  \/ HandleAudioData(MountClosure)

Spec == Init /\ [][Next]_vars

\* The scorer driven frame by frame through a running session, the handler
\* reading the latest render.  InitScore is the state Spec reaches by
\* InitializeAudioOk, ClickStart, StartCommit.
InitScore ==
  /\ referenceData \in RefNames \cup {NoRef}
  /\ signal \in Signals
  /\ scoringEnabled = FALSE
  /\ beats = <<>>
  /\ stats = InitStats
  /\ connected = FALSE
  /\ isRecording = TRUE
  /\ sessionStarted = TRUE
  /\ sessionData = <<>>
  /\ currentTime = 0
  /\ audio = "ready"
  /\ produced = 0
  /\ port = <<>>
  /\ wsState = "connecting"
  /\ starting = <<>>
  /\ timers = 1
  /\ autoStops =
       IF referenceData # NoRef /\ References[referenceData].duration # 0
       THEN << [sessionData |-> <<>>, motion |-> 0,
                referenceData |-> referenceData] >>
       ELSE <<>>
  /\ completions = <<>>
  /\ WorkletAsSource
  /\ ServerInit
  /\ AppLive

NextScore ==
  \/ RefEffect
  \/ WsOpen
  \/ WsClose
  \/ OnHudMessage
  \/ TimerTick
  \/ WorkletPost(MaxScored)
  \/ HandleAudioData(RenderClosure)

SpecScore == InitScore /\ [][NextScore]_vars

\* The worklet fed sample by sample, its messages handled by the component
\* (whose handler, bound at mount, scores nothing whatever the reference).
\* InitWorklet is the state Spec reaches by InitializeAudioOk.
InitWorklet ==
  /\ referenceData = NoRef
  /\ HudMounted
  /\ signal \in Waveforms
  /\ audio = "ready"
  /\ sampleRate \in SampleRates
  /\ WorkletInit
  /\ ServerInit
  /\ AppLive

NextWorklet ==
  \/ Process(MaxFrames)
  \/ HandleAudioData(MountClosure)

SpecWorklet == InitWorklet /\ [][NextWorklet]_vars

\* The backend serving its clients, next to a LiveHUD that has just mounted
InitServer ==
  /\ referenceData = NoRef
  /\ HudMounted
  /\ signal = "tone"
  /\ audio = "pending"
  /\ WorkletAsSource
  /\ ServerInit
  /\ AppLive

NextServer ==
  \/ Finish
  \/ Connect
  \/ Join
  \/ Hud
  \/ Close

SpecServer == InitServer /\ [][NextServer]_vars

\* The App from its first render, LiveHUD taken as the caller of
\* onStartSession and onSessionComplete
InitApp ==
  /\ referenceData = NoRef
  /\ HudMounted
  /\ signal = "tone"
  /\ audio = "pending"
  /\ WorkletAsSource
  /\ ServerInit
  /\ AppInit

NextApp ==
  \/ SongUploaded
  \/ AnalyzeResponds
  \/ PollTick
  \/ PollResponds
  \/ LoadResponds
  \/ MicCheckComplete
  \/ HudStartsSession
  \/ StartResponds
  \/ HudCompletesSession
  \/ SaveResponds
  \/ SubmitResponds
  \/ SetPlayerName
  \/ NewSong
  \/ LeaderboardButton

SpecApp == InitApp /\ [][NextApp]_vars

\* The same with the progress the browser guarantees: a request in flight
\* ends (with one of its outcomes), and a poll interval that has not been
\* cleared fires again.  What the user does (uploading, buttons) is left
\* free.
AppFairness ==
  /\ WF_vars(AnalyzeResponds)
  /\ WF_vars(PollTick)
  /\ WF_vars(PollResponds)
  /\ WF_vars(LoadResponds)
  /\ WF_vars(StartResponds)
  /\ WF_vars(SaveResponds)
  /\ WF_vars(SubmitResponds)

SpecAppFair == InitApp /\ [][NextApp]_vars /\ AppFairness

\* LiveHUD on the live screen together with App's handling of the session it
\* completes.  LiveHUD's own steps are taken while it is mounted, that is
\* while App shows the live screen.  No player name is set there, so the
\* save request is the handler's only one.
Mounted == currentScreen = "live"

NextSession ==
  \/ Mounted /\ RefEffect
  \/ Mounted /\ InitializeAudioOk
  \/ Mounted /\ InitializeAudioFail
  \/ Mounted /\ ClickStart
  \/ Mounted /\ StartCommit
  \/ Mounted /\ StartFail
  \/ Mounted /\ TimerTick
  \/ Mounted /\ ClickStop
  \/ Mounted /\ AutoStop
  \/ Mounted /\ WsOpen
  \/ Mounted /\ WsClose
  \/ Mounted /\ OnHudMessage
  \/ Mounted /\ WorkletPost(MaxFrames)
  \/ Mounted /\ HandleAudioData(MountClosure)
  \/ SaveResponds

\* The progress the browser guarantees: effects run, awaited promises
\* settle, timers and timeouts fire, posted messages are delivered, and
\* requests in flight end.  The START and STOP buttons and the WebSocket
\* peer are left free.
SessionFairness ==
  /\ WF_vars(Mounted /\ RefEffect)
  /\ WF_vars(Mounted /\ (InitializeAudioOk \/ InitializeAudioFail))
  /\ WF_vars(Mounted /\ (StartCommit \/ StartFail))
  /\ WF_vars(Mounted /\ TimerTick)
  /\ WF_vars(Mounted /\ AutoStop)
  /\ WF_vars(Mounted /\ WorkletPost(MaxFrames))
  /\ WF_vars(Mounted /\ HandleAudioData(MountClosure))
  /\ WF_vars(SaveResponds)

\* The microphone hears the steady tone
InitSession == Init /\ signal = "tone"

SpecSession == InitSession /\ [][NextSession]_vars /\ SessionFairness

\* calculateFinalResults applied to the traces the scorer leaves when its
\* handler reads the latest render: SpecScore's session with the STOP button
\* and the auto-stop
NextResults ==
  \/ RefEffect
  \/ TimerTick
  \/ WorkletPost(MaxFrames)
  \/ HandleAudioData(RenderClosure)
  \/ ClickStop
  \/ AutoStop

SpecResults == InitScore /\ [][NextResults]_vars

----------------------------------------------------------------------------
(* Vocabulary of the claims *)

\* A trace entry that went through the scoring branch
Scored(fr) == "totalScore" \in DOMAIN fr

ScoredFrames == {i \in 1..Len(sessionData) : Scored(sessionData[i])}

\* The reference pitch the scorer read for trace entry fr
RefRead(fr) ==
  IF referenceData = NoRef THEN 0
  ELSE refPitchAt(References[referenceData], fr.time)

\* "good": 90 points, the documented "good" grade
GoodThresholdPoints == 90

GoodFrame(fr) == Scored(fr) /\ fr.totalScore > GoodThresholdPoints * SCALE

\* How many good frames end the trace
TrailingGood(tr) ==
  SetMax({k \in 0..Len(tr) :
            \A j \in (Len(tr) - k + 1)..Len(tr) : GoodFrame(tr[j])})

\* |cents(f0, ref)| <= c, for the cents values the claims name, by the
\* frequency ratio 2^(c/1200) in units of 1/10000
CentsRatio(c) ==
  CASE c = 10 -> 10058
    [] c = 25 -> 10145
    [] c = 50 -> 10293
    [] c = 195 -> 11192
    [] c = 205 -> 11257
    [] c = 1150 -> 19431
    [] c = 1250 -> 20586

WithinCents(f0, ref, c) ==
  10000 * Max2(f0, ref) <= CentsRatio(c) * Min2(f0, ref)

----------------------------------------------------------------------------
(* Claims *)

\* C1: every scored frame's total is 70% of its pitch score plus 30% of its
\* energy score, and nothing else.
C1_TotalIsPitchEnergyBlend ==
  \A i \in ScoredFrames :
    10 * sessionData[i].totalScore
      = 7 * sessionData[i].pitchScore + 3 * sessionData[i].energyScore

\* C2: combo mode is on exactly when the trace ends with five or more
\* consecutive good frames, so it comes on with the fifth of them (stated
\* for a session that has received no motion score).
C2_ComboOnFifthGoodFrame ==
  stats.motionScore = 0
    => (comboPopup(stats) <=> (TrailingGood(sessionData) >= 5))

\* C3: a scored frame whose total exceeds the good threshold raises the
\* streak by one; any other scored frame resets it to 0 (stated for a
\* session that has received no motion score).
C3_StreakFollowsGoodFrames ==
  [][ (Len(sessionData') = Len(sessionData) + 1
        /\ stats.motionScore = 0
        /\ Scored(sessionData'[Len(sessionData')]))
      => stats'.combo = IF GoodFrame(sessionData'[Len(sessionData')])
                        THEN stats.combo + 1
                        ELSE 0 ]_vars

C5_OctaveForgiven ==
  \A i \in ScoredFrames :
    LET fr == sessionData[i]
    IN  (/\ fr.f0 > 0
         /\ RefRead(fr) > 0
         /\ WithinCents(fr.f0, RefRead(fr), 1250)
         /\ ~WithinCents(fr.f0, RefRead(fr), 1150))
        => fr.pitchScore >= 90 * SCALE

\* C6: the pitch score is 100 up to 10 cents of error, 90 up to 25, 70 up to
\* 50, below 70 beyond that, and strictly between 0 and 70 at 200 cents.
C6_TieredPitchCurve ==
  \A i \in ScoredFrames :
    LET fr == sessionData[i]
        ref == RefRead(fr)
    IN  (fr.f0 > 0 /\ ref > 0) =>
          /\ WithinCents(fr.f0, ref, 10) => fr.pitchScore = 100 * SCALE
          /\ (~WithinCents(fr.f0, ref, 10) /\ WithinCents(fr.f0, ref, 25))
               => fr.pitchScore = 90 * SCALE
          /\ (~WithinCents(fr.f0, ref, 25) /\ WithinCents(fr.f0, ref, 50))
               => fr.pitchScore = 70 * SCALE
          /\ ~WithinCents(fr.f0, ref, 50) => fr.pitchScore < 70 * SCALE
          /\ (~WithinCents(fr.f0, ref, 195) /\ WithinCents(fr.f0, ref, 205))
               => (fr.pitchScore > 0 /\ fr.pitchScore < 70 * SCALE)

\* C7: every scored frame's energy score lies between 0 and the maximum of
\* 100 points, however loud the frame.
C7_EnergyScoreClamped ==
  \A i \in ScoredFrames :
    /\ sessionData[i].energyScore >= 0
    /\ sessionData[i].energyScore <= 100 * SCALE

\* C7 witness: a frame louder than the 0.5 RMS cap, scored at the maximum.
C7_Witness ==
  \E i \in ScoredFrames :
    /\ sessionData[i].energy > EnergyCap
    /\ sessionData[i].energyScore = 100 * SCALE

\* The session phases of C8, read off the component's state
Phase ==
  IF isRecording THEN "Running"
  ELSE IF sessionStarted THEN "Stopped"
  ELSE IF starting # <<>> THEN "Armed"
  ELSE "Idle"

\* C8, first clause: the phase only ever moves one step forward along
\* Idle, Armed, Running, Stopped.
C8_PhaseOrder ==
  [][ Phase' # Phase
      => <<Phase, Phase'>> \in {<<"Idle", "Armed">>, <<"Armed", "Running">>,
                                <<"Running", "Stopped">>} ]_vars

\* C8, second clause: a session is Running only once initializeAudio has
\* completed (not while it is pending, not after it failed).
C8_RunningOnlyAfterAudioInit == isRecording => audio = "ready"

\* C9: once the session is stopped, no step adds an entry to the trace.
C9_NoFrameAfterStop ==
  [][ (sessionStarted /\ ~isRecording)
      => Len(sessionData') <= Len(sessionData) ]_vars

\* Frames handled so far
Handled == produced - Len(port)

\* C10: the trace is always the most recently handled frames, in the order
\* the worklet produced them; and a step that changes the trace is either a
\* session start, which empties it, or appends exactly one entry, built from
\* the oldest posted message, leaving the earlier entries as they were.
C10_TraceAppendOnlyFifo ==
  /\ [](\A i \in 1..Len(sessionData) :
          /\ Len(sessionData) <= Handled
          /\ <<sessionData[i].f0, sessionData[i].energy>>
               = FrameAt(signal, Handled - Len(sessionData) + i))
  /\ [][ sessionData' # sessionData
         => \/ sessionData' = <<>> /\ isRecording' /\ currentTime' = 0
            \/ /\ port # <<>>
               /\ port' = Tail(port)
               /\ Len(sessionData') = Len(sessionData) + 1
               /\ SubSeq(sessionData', 1, Len(sessionData)) = sessionData
               /\ sessionData'[Len(sessionData')].f0 = Head(port).f0
               /\ sessionData'[Len(sessionData')].energy = Head(port).energy ]_vars

\* C10 witness: a running session whose trace begins with two different frames
\* of the sweep while another message waits in the port.
C10_Witness ==
  /\ isRecording
  /\ signal = "sweep"
  /\ Len(sessionData) >= 2
  /\ sessionData[1].f0 # sessionData[2].f0
  /\ port # <<>>

\* The k-th run of BufLen consecutive samples of the microphone signal
Window(k) == [j \in 1..BufLen |-> Sample(signal, (k - 1) * BufLen + j)]

\* The frame message that analysing the k-th window gives
Analysis(k) ==
  FrameMessage(estimatePitch(Window(k), sampleRate), rootMeanSquare(Window(k)))

\* The k-th frame record the worklet posted, wherever it is now: in the trace
\* (no session start empties the trace under SpecWorklet) or still in the port
Record(k) ==
  IF k <= Len(sessionData) THEN sessionData[k] ELSE port[k - Len(sessionData)]

C12_PitchInVocalRange ==
  \A k \in 1..produced :
    /\ Record(k).f0 # 0
         => (Record(k).f0 >= PitchFloorHz /\ Record(k).f0 <= PitchCeilHz)
    /\ (\A j \in 1..BufLen : Window(k)[j] = 0) => Record(k).f0 = 0

\* C12 amended: every non-zero f0 is at least 60 Hz and at most the sample
\* rate divided by the smallest lag scanned, floor(sr / 1000), which is above
\* 1000 Hz when sr is not a multiple of 1000; an all-zero window gives 0.
C12_PitchWithinScannedLags ==
  \A k \in 1..produced :
    /\ Record(k).f0 # 0
         => /\ Record(k).f0 >= PitchFloorHz
            /\ Record(k).f0 <= sampleRate \div (sampleRate \div PitchCeilHz)
    /\ (\A j \in 1..BufLen : Window(k)[j] = 0) => Record(k).f0 = 0

\* C12 witness: at 44.1 kHz, a voiced window whose f0 is in the vocal range
\* followed by an all-zero window whose f0 is 0.
C12_Witness ==
  /\ sampleRate = 44100
  /\ produced >= 2
  /\ Record(1).f0 >= PitchFloorHz
  /\ Record(1).f0 <= PitchCeilHz
  /\ \A j \in 1..BufLen : Window(2)[j] = 0
  /\ Record(2).f0 = 0

\* C13: every frame record's confidence lies in [0, 1], and every unvoiced
\* record (f0 = 0) has a strictly lower confidence than every voiced one.
C13_ConfidenceOrdersVoicing ==
  /\ \A k \in 1..produced :
       Record(k).confidence >= 0 /\ Record(k).confidence <= 100
  /\ \A j, k \in 1..produced :
       (Record(j).f0 = 0 /\ Record(k).f0 > 0)
         => Record(j).confidence < Record(k).confidence

\* C13 witness: an unvoiced and a voiced record side by side.
C13_Witness ==
  \E j, k \in 1..produced : Record(j).f0 = 0 /\ Record(k).f0 > 0

\* The hop of the contour that covers tick t: floor(t * sample_rate /
\* hop_length) with t in seconds (a tick is TickMs milliseconds)
HopCovering(rd, t) ==
  (t * TickMs * OrDefault(rd.sampleRate, DefaultRate))
     \div (1000 * OrDefault(rd.hopLength, DefaultHop))

\* C14: a scored frame's pitch score is the one computed against the
\* reference pitch of the hop covering the frame's time, and is 0 when that
\* hop is past the end of the contour.
C14_ReferenceReadAtFrameTime ==
  \A i \in ScoredFrames :
    LET fr == sessionData[i]
        rd == References[referenceData]
        k == HopCovering(rd, fr.time)
    IN  fr.pitchScore =
          IF k < Len(rd.refPitchHz) /\ fr.f0 > 0 /\ rd.refPitchHz[k + 1] > 0
          THEN 100 * pitchCurve(fr.f0, rd.refPitchHz[k + 1])
          ELSE 0

\* C19: a scored frame that has a beat before and after it, and lies within
\* 20% of the beat interval of either beat, is onBeat with rhythm score 100;
\* any other such frame is not onBeat and has rhythm score
\* max(0, 1 - 2 * timingErr).
C19_OnBeatNearBeats ==
  \A i \in ScoredFrames :
    LET fr == sessionData[i]
        prevBeat == prevBeatOf(beats, fr.time)
        nextBeat == nextBeatOf(beats, fr.time)
        near == \/ 10 * (fr.time - prevBeat) <= 2 * (nextBeat - prevBeat)
                \/ 10 * (fr.time - prevBeat) >= 8 * (nextBeat - prevBeat)
    IN  (Len(beats) > 0 /\ prevBeat # 0 /\ nextBeat # 0)
          => IF near
             THEN fr.onBeat /\ fr.rhythmScore = 100 * SCALE
             ELSE /\ ~fr.onBeat
                  /\ fr.rhythmScore = Max2(0, 100 * SCALE - 2 * fr.timingErr)

\* The fields of a score record
ScoreFields == {"pitchScore", "energyScore", "totalScore", "combo"}

\* C18: while a session is running every entry of its trace is a score
\* record with pitch score, energy score, total score and combo, and every
\* result handed to onSessionComplete is computed from such entries only.
C18_EveryFrameScored ==
  /\ isRecording
       => \A i \in 1..Len(sessionData) :
            ScoreFields \subseteq DOMAIN sessionData[i]
  /\ \A c \in 1..Len(completions) :
       \A i \in 1..Len(completions[c].frames) :
         ScoreFields \subseteq DOMAIN completions[c].frames[i]

\* C20: a session completes at most once.  Stated where no auto-stop is
\* armed (no reference, or one without a duration), so that the STOP button
\* alone ends sessions and `timers` counts the sessions started: no more
\* results are handed to onSessionComplete than sessions were started.
C20_CompletesOnce ==
  (referenceData = NoRef \/ References[referenceData].duration = 0)
    => Len(completions) <= timers

\* C15: a step in which the server sends anything sends one 'hud' message to
\* each open socket, other than the sender, whose room is the sender's room,
\* and to no other socket: not to the sender, not to a socket whose room is
\* a different one, not to a socket that has no room.
C15_RelayRoomScoped ==
  [][ received' # received
      => \E ws \in Sockets, payload \in Payloads :
           /\ readyState[ws] = "open"
           /\ \A p \in Sockets :
                received'[p] =
                  IF /\ p # ws
                     /\ readyState[p] = "open"
                     /\ wsRoom[ws] # Undefined
                     /\ wsRoom[p] = wsRoom[ws]
                  THEN Append(received[p], [type |-> "hud", payload |-> payload])
                  ELSE received[p] ]_vars

\* C16: once a session id has stored results, no step changes what
\* GET /results/:session_id returns for it.
C16_StoredResultImmutable ==
  [][ \A id \in SessionIds :
        id \in DOMAIN results => GetResults(id)' = GetResults(id) ]_vars

\* C17: every step leaves the screen one of the four, and changes it only one
\* step forward along upload, mic-check, live, results, or back to upload.
C17_ScreenOrder ==
  [][ /\ currentScreen' \in {"upload", "mic-check", "live", "results"}
      /\ currentScreen' # currentScreen
           => \/ <<currentScreen, currentScreen'>>
                   \in {<<"upload", "mic-check">>, <<"mic-check", "live">>,
                        <<"live", "results">>}
              \/ currentScreen' = "upload" ]_vars

\* The room sets a socket is a member of
RoomsOf(ws) == {r \in DOMAIN rooms : ws \in rooms[r]}

\* C29: every connected socket is a member of at most one room set, the one
\* its room names, and a closed socket is a member of none.
C29_SocketInOneRoom ==
  \A ws \in Sockets :
    /\ readyState[ws] = "open" => RoomsOf(ws) \subseteq {wsRoom[ws]}
    /\ readyState[ws] = "closed" => RoomsOf(ws) = {}

\* C24: every scored frame's total score lies in 0..100 points, whatever
\* pitch, rhythm, energy and motion scores went into it.
C24_TotalScoreInRange ==
  \A i \in ScoredFrames :
    /\ sessionData[i].totalScore >= 0
    /\ sessionData[i].totalScore <= 100 * SCALE

\* C27: whenever the app shows the mic-check or the live screen, reference
\* data has been loaded (referenceData is not null).
C27_ReferenceLoadedOnLive ==
  currentScreen \in {"mic-check", "live"} => referenceData # NoRef

\* Status requests of job j in flight
NumPoll(ts, j) ==
  Cardinality({i \in 1..Len(ts) : ts[i].kind = "poll" /\ ts[i].job = j})

\* C26: once polling for a job has stopped, a status response of that job
\* that arrives later changes nothing: it starts no reference load (which
\* would end in another transition to mic-check), and leaves the poll
\* intervals, the screen and the reference as they are.
C26_NoEffectAfterPollingStops ==
  [][ \A j \in 1..jobs :
        (j \notin polling /\ NumPoll(tasks', j) < NumPoll(tasks, j))
          => /\ Len(tasks') = Len(tasks) - 1
             /\ polling' = polling
             /\ currentScreen' = currentScreen
             /\ referenceData' = referenceData ]_vars

\* An /analyze request is in flight: a file has been uploaded and
\* handleSongUploaded awaits the analysis
AnalysisPending == \E i \in 1..Len(tasks) : tasks[i].kind = "analyze"

\* C28: after an upload, whatever /analyze answers, the app eventually shows
\* the mic-check screen or reports the failure with a new alert.
C28_UploadLeadsToFeedback ==
  \A n \in 0..(MaxAlerts - 1) :
    (AnalysisPending /\ alerts = n) ~> (currentScreen = "mic-check" \/ alerts > n)

\* handleSessionComplete calls that have not run to their end
Completing(ts) == {i \in 1..Len(ts) : ts[i].kind \in {"save", "submit"}}

\* C25: a leaderboard submission is in flight only with a player name and
\* only after a save request that ended without error; the step that ends a
\* handleSessionComplete call shows the results screen, whether its save
\* succeeded or failed; and every such call does end there.
C25_ResultsAfterSaveOrFailure ==
  /\ [](\A i \in 1..Len(tasks) :
          tasks[i].kind = "submit"
            => tasks[i].playerName # "" /\ tasks[i].saved = "ok")
  /\ [][ Cardinality(Completing(tasks')) < Cardinality(Completing(tasks))
           => currentScreen' = "results" ]_vars
  /\ (Completing(tasks) # {}) ~> (currentScreen = "results")

\* A session has been started and then stopped
SessionStopped == sessionStarted /\ ~isRecording

\* C21: once a running session is stopped, by the STOP button or by the
\* auto-stop, onSessionComplete is eventually called and the app eventually
\* shows the results screen, also when no frame was recorded.
C21_StopLeadsToResults ==
  /\ SessionStopped ~> (Len(completions) > 0)
  /\ SessionStopped ~> (currentScreen = "results")

\* The running scores kept in stats
RunningScores ==
  {"totalScore", "pitchScore", "rhythmScore", "energyScore", "motionScore"}

\* C22: the step that starts a session (the rest of startSession, which
\* starts the session's timer) leaves the trace empty, the session time 0, and
\* the combo and every running score 0; and the results of a session are
\* computed from the trace as it stands, so from frames received since the
\* start only.
C22_FreshStateAtStart ==
  [][ /\ timers' = timers + 1
        => /\ sessionData' = <<>>
           /\ currentTime' = 0
           /\ stats'.combo = 0
           /\ \A k \in RunningScores : stats'[k] = 0
      /\ completions' # completions
        => completions'[Len(completions')].frames = sessionData ]_vars

\* C23: in every result handed to onSessionComplete each frame of the trace
\* contributes to at most one phrase entry, and to an entry only if its time
\* lies between that phrase's start and end.
C23_FrameInOnePhrase ==
  \A c \in 1..Len(completions) :
    LET r == completions[c]
    IN  /\ \A i \in 1..Len(r.frames) :
             Cardinality({k \in 1..Len(r.perPhrase) :
                            i \in r.perPhrase[k].frames}) <= 1
        /\ \A k \in 1..Len(r.perPhrase) :
             \A i \in r.perPhrase[k].frames :
               /\ r.frames[i].time >= r.perPhrase[k].start
               /\ r.frames[i].time <= r.perPhrase[k].end

====
